---------------------------- MODULE Spec2Model ----------------------------
(***************************************************************************)
(* Model of the mika-bot admin front-end's two stateful controllers:       *)
(*   - the session gate: AuthProvider (contexts/AuthContext), the route    *)
(*     guards PrivateRoute / PublicRoute (App.jsx), the Login form and     *)
(*     the request() wrapper of services/api.js;                           *)
(*   - the realtime transport and chat controller: pages/Chat.jsx.         *)
(* The project is built on React 18, which batches the state setters a     *)
(* handler calls in one run: one action is one run of a handler between    *)
(* two suspension points (await, timer, socket event), and the redirects   *)
(* its render triggers.                                                    *)
(***************************************************************************)
EXTENDS Integers, Sequences, FiniteSets, TLC

VARIABLES
    \* ---- AuthProvider state (AuthContext) and the router ----
    app,          \* "init" before the mount effect has run, then "mounted"
    user,         \* "null" or "user" ({authenticated: true})
    loading,      \* BOOLEAN
    setupNeeded,  \* "true" | "false" | "undefined": the value last stored
    path,         \* the router's current location
    error,        \* the Login component's error text ("" when none)
    reqs,         \* REST requests in flight, in the order they were issued
    glast,        \* the gate handler that ran last, and its outcome
    gresp,        \* the response that handler received, if it received one
    gstale,       \* how many requests at the head of reqs were issued before
                  \* an outcome that has been applied since
    \* ---- Chat component state ----
    chat,         \* "init" | "mounted" | "unmounted"
    socks,        \* the WebSocket objects: slot -> readyState or "FREE"
    wsRef,        \* wsRef.current: 0 for null, else a slot of socks
    timers,       \* pending setTimeout(connect, 2000) timers
    status,       \* the status indicator
    messages,     \* the message log
    input,        \* the input field (a sequence of characters)
    sent,         \* the frames handed to WebSocket.send, in order
    clast,        \* the chat handler that ran last
    cframe        \* the inbound frame that handler received, if it received one

gateVars == <<app, user, loading, setupNeeded, path, error, reqs, glast, gresp,
              gstale>>
chatVars == <<chat, socks, wsRef, timers, status, messages, input, sent, clast, cframe>>
vars == <<gateVars, chatVars>>

\* Bounds of the model.
MaxInFlight == 2

-----------------------------------------------------------------------------
(***************************************************************************)
(* services/api.js: request()                                              *)
(***************************************************************************)

JsVals == {"true", "false", "undefined"}

\* A JSON object body: the fields the client reads.
NoBody == [error |-> "", authenticated |-> "undefined", setup_needed |-> "undefined"]

\* What the server (or the network) answers to a request.
\*   net:    fetch() resolved with a response (FALSE: it rejected)
\*   status: the HTTP status
\*   json:   the body parses as a JSON object
Response(net, st, json, body) ==
    [net |-> net, status |-> st, json |-> json, body |-> body]

NetFail == Response(FALSE, 0, FALSE, NoBody)

\* No response: the handler that ran was not the completion of a request.
NoResponse == Response(FALSE, 0, FALSE, NoBody)

ErrorResponses ==
    { NetFail,
      Response(TRUE, 401, TRUE, [NoBody EXCEPT !.error = "bad password"]),
      Response(TRUE, 403, TRUE, [NoBody EXCEPT !.error = "locked"]),
      Response(TRUE, 500, TRUE, NoBody),
      Response(TRUE, 500, FALSE, NoBody),
      Response(TRUE, 200, FALSE, NoBody) }

CheckResponses ==
    ErrorResponses \cup
    { Response(TRUE, 200, TRUE,
               [NoBody EXCEPT !.authenticated = a, !.setup_needed = s]) :
        a \in JsVals, s \in JsVals }

PostResponses ==
    ErrorResponses \cup { Response(TRUE, 200, TRUE, NoBody) }

\* The outcome of `await request(...)`: the data, or the error thrown.
\* status 0 stands for an error object without a status (TypeError, SyntaxError).
Returned(data) == [ok |-> TRUE, data |-> data, message |-> "", status |-> 200]
Thrown(msg, st) == [ok |-> FALSE, data |-> NoBody, message |-> msg, status |-> st]

request(resp) ==
    IF ~resp.net THEN Thrown("Failed to fetch", 0)
    ELSE IF resp.status = 401 THEN Thrown("Unauthorized", 401)
    ELSE IF ~resp.json THEN Thrown("Unexpected token", 0)
    ELSE IF ~(resp.status \in 200..299)
         THEN Thrown(IF resp.body.error # "" THEN resp.body.error ELSE "API Error",
                     resp.status)
    ELSE Returned(resp.body)

-----------------------------------------------------------------------------
(***************************************************************************)
(* App.jsx: the route guards and the route table                           *)
(***************************************************************************)

Truthy(v) == v = "true"

PublicPaths  == {"/login", "/setup"}
PrivatePaths == {"/", "/chat"}
Paths        == PublicPaths \cup PrivatePaths \cup {"/nope"}

\* PrivateRoute: what it returns for the gate state (u, l, s).
PrivateRoute(u, l, s) ==
    IF l THEN "spinner"
    ELSE IF Truthy(s) THEN "to:/setup"
    ELSE IF u = "null" THEN "to:/login"
    ELSE "layout"

\* Mutant of PublicRoute: the loading test is missing.
PublicRouteNoLoading(u, l, s) ==
    IF Truthy(s) THEN "outlet"
    ELSE IF u # "null" THEN "to:/"
    ELSE "outlet"

\* PublicRoute: what it returns for the gate state (u, l, s).
PublicRoute(u, l, s) ==
    IF l THEN "null"
    ELSE IF Truthy(s) THEN "outlet"
    ELSE IF u # "null" THEN "to:/"
    ELSE "outlet"

\* One render of <Routes> at location p: the view shown and the redirect
\* (<Navigate>) it asks for, "" when none.
Routes(p, u, l, s) ==
    IF p \in PublicPaths THEN
        LET r == PublicRoute(u, l, s) IN
        CASE r = "null"   -> [view |-> "blank", to |-> ""]
          [] r = "to:/"   -> [view |-> "blank", to |-> "/"]
          [] r = "outlet" -> [view |-> IF p = "/login" THEN "loginForm" ELSE "setupForm",
                              to |-> ""]
    ELSE IF p \in PrivatePaths THEN
        LET r == PrivateRoute(u, l, s) IN
        CASE r = "spinner"   -> [view |-> "spinner", to |-> ""]
          [] r = "to:/setup" -> [view |-> "blank", to |-> "/setup"]
          [] r = "to:/login" -> [view |-> "blank", to |-> "/login"]
          [] r = "layout"    -> [view |-> "protected", to |-> ""]
    ELSE [view |-> "blank", to |-> "/"]

\* The location once every <Navigate> has taken effect.
RECURSIVE Settle(_, _, _, _)
Settle(p, u, l, s) ==
    LET r == Routes(p, u, l, s) IN
    IF r.to = "" THEN p ELSE Settle(r.to, u, l, s)

\* The view on screen in the current state.
View == Routes(path, user, loading, setupNeeded).view

\* Mutant of the guards' reading: setupNeeded is compared with false, so a
\* value that is neither true nor false gives no phase.
PhaseOfStrict(u, l, s) ==
    IF l THEN "Unresolved"
    ELSE IF s = "true" THEN "SetupRequired"
    ELSE IF s # "false" THEN "undefined"
    ELSE IF u = "null" THEN "Unauthenticated"
    ELSE "Authenticated"

\* The gate's phase, read the way the route guards read the three fields.
PhaseOf(u, l, s) ==
    IF l THEN "Unresolved"
    ELSE IF Truthy(s) THEN "SetupRequired"
    ELSE IF u = "null" THEN "Unauthenticated"
    ELSE "Authenticated"

Phase == PhaseOf(user, loading, setupNeeded)

-----------------------------------------------------------------------------
(***************************************************************************)
(* AuthContext: AuthProvider, and Login.jsx: handleSubmit                  *)
(***************************************************************************)

Forms == {"loginForm", "setupForm"}

\* A request in flight. alive: the Login instance whose handleSubmit awaits it
\* is still mounted (its setError still has an effect).
Req(kind, origin, alive) == [kind |-> kind, origin |-> origin, alive |-> alive]

Remove(s, i) == SubSeq(s, 1, i - 1) \o SubSeq(s, i + 1, Len(s))

Orphan(s) == [k \in DOMAIN s |-> [s[k] EXCEPT !.alive = FALSE]]

\* The Login instance on screen survives a render that starts at location
\* start in gate state (u, l, s): same element type at the same place of the
\* route tree. Any other view in between unmounts it.
Survives(start, u, l, s) ==
    /\ View \in Forms
    /\ Routes(start, u, l, s).view \in Forms

NoOutcome == Returned(NoBody)

Last(op, kind, out) == [op |-> op, kind |-> kind, out |-> out]

GateInit ==
    /\ app = "init"
    /\ user = "null"
    /\ loading = TRUE
    /\ setupNeeded = "false"
    /\ path \in { Settle(p, "null", TRUE, "false") : p \in Paths }
    /\ error = ""
    /\ reqs = <<>>
    /\ glast = Last("init", "", NoOutcome)
    /\ gresp = NoResponse
    /\ gstale = 0

\* useEffect(() => { checkAuth(); }, []): the first session check is issued.
AppMount ==
    /\ app = "init"
    /\ app' = "mounted"
    /\ reqs' = Append(reqs, Req("check", "mount", FALSE))
    /\ glast' = Last("mount", "", NoOutcome)
    /\ UNCHANGED <<user, loading, setupNeeded, path, error>>
    /\ gresp' = NoResponse
    /\ gstale' = gstale
    /\ UNCHANGED chatVars

\* Mutant of checkAuth: setup_needed is read only in the else branch.
checkAuthElseSetup(out) ==
    IF out.ok
    THEN [user  |-> IF Truthy(out.data.authenticated) THEN "user" ELSE "null",
          setup |-> IF Truthy(out.data.authenticated) THEN "false"
                    ELSE out.data.setup_needed,
          loading |-> FALSE]
    ELSE [user  |-> "null",
          setup |-> setupNeeded,
          loading |-> FALSE]

\* Mutant of checkAuth: setLoading(false) is at the end of the try block, not
\* in a finally.
checkAuthNoFinally(out) ==
    IF out.ok
    THEN [user  |-> IF Truthy(out.data.authenticated) THEN "user" ELSE "null",
          setup |-> out.data.setup_needed,
          loading |-> FALSE]
    ELSE [user  |-> "null",
          setup |-> setupNeeded,
          loading |-> loading]

\* checkAuth() from `await api.checkAuth()` on: the state it leaves.
checkAuth(out) ==
    IF out.ok
    THEN [user  |-> IF Truthy(out.data.authenticated) THEN "user" ELSE "null",
          setup |-> out.data.setup_needed,
          loading |-> FALSE]
    ELSE [user  |-> "null",
          setup |-> setupNeeded,
          loading |-> FALSE]

\* A session check completes with response resp. checkAuth never throws; when
\* login()/setup() awaited it, handleSubmit goes on to navigate('/').
CheckAuthDone(i, resp) ==
    /\ reqs[i].kind = "check"
    /\ LET out   == request(resp)
           st    == checkAuth(out)
           start == IF reqs[i].origin = "mount" THEN path ELSE "/"
           keep  == Survives(start, st.user, st.loading, st.setup)
       IN /\ user' = st.user
          /\ setupNeeded' = st.setup
          /\ loading' = st.loading
          /\ path' = Settle(start, st.user, st.loading, st.setup)
          /\ error' = IF keep THEN error ELSE ""
          /\ reqs' = IF keep THEN Remove(reqs, i) ELSE Orphan(Remove(reqs, i))
          /\ glast' = Last("check", reqs[i].origin, out)
    /\ UNCHANGED app
    /\ gresp' = resp
    /\ gstale' = IF i <= gstale THEN gstale - 1 ELSE i - 1
    /\ UNCHANGED chatVars

\* Login.handleSubmit up to its first await: the form on screen is submitted.
\* match: whether the two passwords of the setup form are equal.
handleSubmit(mode, match) ==
    /\ View = (IF mode = "setup" THEN "setupForm" ELSE "loginForm")
    /\ IF mode = "setup" /\ ~match
       THEN /\ error' = "Passwords do not match"
            /\ glast' = Last("submit", mode, Thrown("Passwords do not match", 0))
            /\ UNCHANGED reqs
       ELSE /\ Len(reqs) < MaxInFlight
            /\ error' = ""
            /\ reqs' = Append(reqs, Req(mode, "form", TRUE))
            /\ glast' = Last("submit", mode, NoOutcome)
    /\ UNCHANGED <<app, user, loading, setupNeeded, path>>
    /\ gresp' = NoResponse
    /\ gstale' = gstale
    /\ UNCHANGED chatVars

\* Mutant of login: checkAuth() is called in a finally block.
loginFinallyChecks(out) ==
    [check |-> TRUE, thrown |-> IF out.ok THEN NoOutcome ELSE out]

\* login(password) / setup(password) from `await api.login(password)` on:
\* whether checkAuth() is called next, and the error thrown to the caller.
login(out) ==
    IF out.ok THEN [check |-> TRUE,  thrown |-> NoOutcome]
    ELSE           [check |-> FALSE, thrown |-> out]

\* The POST of login()/setup() completes; on a throw the catch of
\* handleSubmit shows the message.
loginDone(i, resp) ==
    /\ reqs[i].kind \in {"login", "setup"}
    /\ LET r == login(request(resp)) IN
       /\ reqs' = IF r.check
                  THEN Append(Remove(reqs, i),
                              Req("check", reqs[i].kind, reqs[i].alive))
                  ELSE Remove(reqs, i)
       /\ error' = IF ~r.thrown.ok /\ reqs[i].alive
                   THEN (IF r.thrown.message # "" THEN r.thrown.message
                         ELSE "Failed to authenticate")
                   ELSE error
       /\ glast' = Last("post", reqs[i].kind, r.thrown)
    /\ UNCHANGED <<app, user, loading, setupNeeded, path>>
    /\ gresp' = resp
    /\ gstale' = IF i <= gstale THEN gstale - 1 ELSE gstale
    /\ UNCHANGED chatVars

\* Layout's Logout button: logout() up to `await api.logout()`.
logoutStart ==
    /\ View = "protected"
    /\ Len(reqs) < MaxInFlight
    /\ reqs' = Append(reqs, Req("logout", "layout", FALSE))
    /\ glast' = Last("logoutStart", "", NoOutcome)
    /\ UNCHANGED <<app, user, loading, setupNeeded, path, error>>
    /\ gresp' = NoResponse
    /\ gstale' = gstale
    /\ UNCHANGED chatVars

\* logout() from `await api.logout()` on: the user it leaves.
logout(out) == IF out.ok THEN "null" ELSE user

\* The logout POST completes.
logoutDone(i, resp) ==
    /\ reqs[i].kind = "logout"
    /\ LET out  == request(resp)
           u    == logout(out)
           keep == Survives(path, u, loading, setupNeeded)
       IN /\ user' = u
          /\ path' = Settle(path, u, loading, setupNeeded)
          /\ error' = IF keep THEN error ELSE ""
          /\ reqs' = IF keep THEN Remove(reqs, i) ELSE Orphan(Remove(reqs, i))
          /\ glast' = Last("logout", "", out)
    /\ UNCHANGED <<app, loading, setupNeeded>>
    /\ gresp' = resp
    /\ gstale' = IF i <= gstale THEN gstale - 1
                ELSE IF request(resp).ok THEN i - 1 ELSE gstale
    /\ UNCHANGED chatVars

\* The operator follows a link or moves through the history to location p.
Navigate(p) ==
    /\ app = "mounted"
    /\ p # path
    /\ LET keep == Survives(p, user, loading, setupNeeded) IN
       /\ path' = Settle(p, user, loading, setupNeeded)
       /\ error' = IF keep THEN error ELSE ""
       /\ reqs' = IF keep THEN reqs ELSE Orphan(reqs)
    /\ glast' = Last("navigate", "", NoOutcome)
    /\ UNCHANGED <<app, user, loading, setupNeeded>>
    /\ gresp' = NoResponse
    /\ gstale' = gstale
    /\ UNCHANGED chatVars

GateNext ==
    \/ AppMount
    \/ \E i \in 1..Len(reqs), resp \in CheckResponses : CheckAuthDone(i, resp)
    \/ \E mode \in {"login", "setup"}, match \in BOOLEAN : handleSubmit(mode, match)
    \/ \E i \in 1..Len(reqs), resp \in PostResponses : loginDone(i, resp)
    \/ logoutStart
    \/ \E i \in 1..Len(reqs), resp \in PostResponses : logoutDone(i, resp)
    \/ \E p \in Paths : Navigate(p)

-----------------------------------------------------------------------------
(***************************************************************************)
(* pages/Chat.jsx                                                          *)
(***************************************************************************)

MaxSockets == 3   \* WebSocket objects alive at once
MaxLog     == 3   \* entries of the message log
MaxInput   == 1   \* characters of the input field

Slots == 1..MaxSockets
Chars == {" ", "a"}

RECURSIVE Strings(_)
Strings(n) ==
    IF n = 0 THEN {<<>>}
    ELSE Strings(n - 1) \cup { Append(t, c) : t \in Strings(n - 1), c \in Chars }

Inputs == Strings(MaxInput)

\* String.prototype.trim(): white space removed from both ends.
RECURSIVE TrimStart(_)
TrimStart(t) ==
    IF t # <<>> /\ Head(t) = " " THEN TrimStart(Tail(t)) ELSE t

RECURSIVE TrimEnd(_)
TrimEnd(t) ==
    IF t # <<>> /\ t[Len(t)] = " " THEN TrimEnd(SubSeq(t, 1, Len(t) - 1)) ELSE t

\* Mutant of trim: the text is taken as typed.
trimNone(t) == t

trim(t) == TrimEnd(TrimStart(t))

\* An inbound frame's e.data.
\*   json:   JSON.parse succeeds
\*   object: the parsed value is an object (not null)
\*   hasContent / content, hasSender / sender: the fields it carries
Frame(json, object, hc, c, hs, sn) ==
    [json |-> json, object |-> object, hasContent |-> hc, content |-> c,
     hasSender |-> hs, sender |-> sn]

Frames ==
    { Frame(FALSE, FALSE, FALSE, <<>>, FALSE, ""),
      Frame(TRUE, FALSE, FALSE, <<>>, FALSE, ""),
      Frame(TRUE, TRUE, FALSE, <<>>, FALSE, ""),
      Frame(TRUE, TRUE, FALSE, <<>>, TRUE, "mika"),
      Frame(TRUE, TRUE, TRUE, <<>>, FALSE, ""),
      Frame(TRUE, TRUE, TRUE, <<"a">>, FALSE, ""),
      Frame(TRUE, TRUE, TRUE, <<"a">>, TRUE, ""),
      Frame(TRUE, TRUE, TRUE, <<"a">>, TRUE, "mika"),
      Frame(TRUE, TRUE, TRUE, <<"a">>, TRUE, "user") }

\* No frame: the handler that ran was not onmessage.
NoFrame == Frame(FALSE, FALSE, FALSE, <<>>, FALSE, "")

Entry(text, sender) == [text |-> text, sender |-> sender]

Live == {"CONNECTING", "OPEN", "CLOSING"}

FreeSlots(ss) == { k \in Slots : ss[k] = "FREE" }

\* A closed WebSocket that wsRef does not hold is referred to by nothing:
\* its callbacks have run, and its slot is free again.
Collect(ss, ref) ==
    [k \in Slots |-> IF ss[k] = "CLOSED" /\ k # ref THEN "FREE" ELSE ss[k]]

CLast(op, sock, note) == [op |-> op, sock |-> sock, note |-> note]

ChatInit ==
    /\ chat = "init"
    /\ socks = [k \in Slots |-> "FREE"]
    /\ wsRef = 0
    /\ timers = 0
    /\ status = "Connecting..."
    /\ messages = <<>>
    /\ input = <<>>
    /\ sent = <<>>
    /\ clast = CLast("init", 0, "")
    /\ cframe = NoFrame

\* Mutant of connect: the new WebSocket is not stored in wsRef.
connectNoRef(ss) ==
    LET k == CHOOSE f \in FreeSlots(ss) : \A g \in FreeSlots(ss) : f <= g
    IN [socks |-> Collect([ss EXCEPT ![k] = "CONNECTING"], wsRef), wsRef |-> wsRef]

\* connect(): a new WebSocket, its callbacks armed, stored in wsRef.
connect(ss) ==
    LET k == CHOOSE f \in FreeSlots(ss) : \A g \in FreeSlots(ss) : f <= g
    IN [socks |-> Collect([ss EXCEPT ![k] = "CONNECTING"], k), wsRef |-> k]

\* The mount effect of Chat: connect().
ChatMount ==
    /\ chat = "init"
    /\ FreeSlots(socks) # {}
    /\ chat' = "mounted"
    /\ socks' = connect(socks).socks
    /\ wsRef' = connect(socks).wsRef
    /\ clast' = CLast("mount", wsRef', "")
    /\ UNCHANGED <<timers, status, messages, input, sent>>
    /\ cframe' = NoFrame
    /\ UNCHANGED gateVars

\* The cleanup of the mount effect: what wsRef.current.close() leaves.
cleanup(ss, ref) ==
    IF ref # 0 /\ ss[ref] \in {"CONNECTING", "OPEN"}
    THEN [ss EXCEPT ![ref] = "CLOSING"]
    ELSE ss

\* The Chat view is torn down.
ChatUnmount ==
    /\ chat = "mounted"
    /\ chat' = "unmounted"
    /\ socks' = cleanup(socks, wsRef)
    /\ clast' = CLast("unmount", wsRef, "")
    /\ UNCHANGED <<wsRef, timers, status, messages, input, sent>>
    /\ cframe' = NoFrame
    /\ UNCHANGED gateVars

\* Mutant of the timer's connect(): the status goes back to "Connecting...".
TimerFireConnecting ==
    /\ timers > 0
    /\ FreeSlots(socks) # {}
    /\ timers' = timers - 1
    /\ socks' = connect(socks).socks
    /\ wsRef' = connect(socks).wsRef
    /\ status' = IF chat = "mounted" THEN "Connecting..." ELSE status
    /\ clast' = CLast("timer", wsRef', "")
    /\ UNCHANGED <<chat, messages, input, sent>>
    /\ cframe' = NoFrame
    /\ UNCHANGED gateVars

\* A setTimeout(connect, 2000) timer fires.
TimerFire ==
    /\ timers > 0
    /\ FreeSlots(socks) # {}
    /\ timers' = timers - 1
    /\ socks' = connect(socks).socks
    /\ wsRef' = connect(socks).wsRef
    /\ clast' = CLast("timer", wsRef', "")
    /\ UNCHANGED <<chat, status, messages, input, sent>>
    /\ cframe' = NoFrame
    /\ UNCHANGED gateVars

\* A state setter of the Chat component: without effect once it is unmounted.
SetState(old, new) == IF chat = "mounted" THEN new ELSE old

\* Mutant of ws.onopen: the last frame is sent again when a socket opens.
onopenResend(k) ==
    /\ socks[k] = "CONNECTING"
    /\ socks' = [socks EXCEPT ![k] = "OPEN"]
    /\ status' = SetState(status, "Connected")
    /\ clast' = CLast("onopen", k, "")
    /\ sent' = IF sent = <<>> THEN sent ELSE Append(sent, sent[Len(sent)])
    /\ UNCHANGED <<chat, wsRef, timers, messages, input>>
    /\ cframe' = NoFrame
    /\ UNCHANGED gateVars

\* ws.onopen of socket k: the server accepted the connection.
onopen(k) ==
    /\ socks[k] = "CONNECTING"
    /\ socks' = [socks EXCEPT ![k] = "OPEN"]
    /\ status' = SetState(status, "Connected")
    /\ clast' = CLast("onopen", k, "")
    /\ UNCHANGED <<chat, wsRef, timers, messages, input, sent>>
    /\ cframe' = NoFrame
    /\ UNCHANGED gateVars

\* Mutant of onclose: no reconnection is scheduled.
oncloseNoRetry(n) == n

\* Mutant of onclose: the reconnection is scheduled twice.
oncloseTwice(n) == n + 2

\* ws.onclose: the timers pending once it has run.
onclose(n) == n + 1

\* The close event of socket k: the connection failed, was lost, or its
\* closing handshake (after close()) ended.
SocketClose(k) ==
    /\ socks[k] \in Live
    /\ socks' = Collect([socks EXCEPT ![k] = "CLOSED"], wsRef)
    /\ status' = SetState(status, "Disconnected")
    /\ timers' = onclose(timers)
    /\ clast' = CLast("onclose", k, IF socks[k] = "CLOSING" THEN "planned" ELSE "unplanned")
    /\ UNCHANGED <<chat, wsRef, messages, input, sent>>
    /\ cframe' = NoFrame
    /\ UNCHANGED gateVars

\* Mutant of onmessage: presence of the content and sender keys decides,
\* not their truthiness.
onmessageByPresence(log, f) ==
    IF f.json /\ f.object /\ f.hasContent
    THEN Append(log, Entry(f.content, IF f.hasSender THEN f.sender ELSE "bot"))
    ELSE log

\* Mutant of onmessage: the new entry is put in front of the log.
onmessagePrepend(log, f) ==
    IF f.json /\ f.object /\ f.hasContent /\ f.content # <<>>
    THEN <<Entry(f.content,
                 IF f.hasSender /\ f.sender # "" THEN f.sender ELSE "bot")>> \o log
    ELSE log

\* ws.onmessage: the log it leaves for frame f.
onmessage(log, f) ==
    IF f.json /\ f.object /\ f.hasContent /\ f.content # <<>>
    THEN Append(log, Entry(f.content,
                           IF f.hasSender /\ f.sender # "" THEN f.sender ELSE "bot"))
    ELSE log

\* A frame arrives on the open socket k.
SocketMessage(k, f) ==
    /\ socks[k] = "OPEN"
    /\ Len(onmessage(messages, f)) <= MaxLog
    /\ messages' = SetState(messages, onmessage(messages, f))
    /\ clast' = CLast("onmessage", k,
                      IF onmessage(messages, f) = messages THEN "dropped" ELSE "appended")
    /\ UNCHANGED <<chat, socks, wsRef, timers, status, input, sent>>
    /\ cframe' = f
    /\ UNCHANGED gateVars

\* onChange of the input field.
SetInput(v) ==
    /\ chat = "mounted"
    /\ v # input
    /\ input' = v
    /\ clast' = CLast("input", wsRef, "")
    /\ UNCHANGED <<chat, socks, wsRef, timers, status, messages, sent>>
    /\ cframe' = NoFrame
    /\ UNCHANGED gateVars

\* Mutant of the guard: the readyState test is missing.
NotReadyNullOnly(ref, ss) == ref = 0

\* The guard of sendMessage: TRUE when it returns without doing anything.
NotReady(ref, ss) == ref = 0 \/ ss[ref] # "OPEN"

\* Mutant of sendMessage: the entry is appended before the readiness test.
sendMessageOptimistic ==
    /\ chat = "mounted"
    /\ IF trim(input) = <<>>
       THEN /\ clast' = CLast("submit", wsRef, "ignored")
            /\ UNCHANGED <<messages, sent, input>>
       ELSE /\ Len(messages) < MaxLog
            /\ messages' = Append(messages, Entry(trim(input), "user"))
            /\ sent' = IF NotReady(wsRef, socks) THEN sent
                       ELSE Append(sent, [type |-> "message", content |-> trim(input)])
            /\ input' = <<>>
            /\ clast' = CLast("submit", wsRef, "sent")
    /\ UNCHANGED <<chat, socks, wsRef, timers, status>>
    /\ cframe' = NoFrame
    /\ UNCHANGED gateVars

\* sendMessage: the form is submitted.
sendMessage ==
    /\ chat = "mounted"
    /\ IF trim(input) = <<>> \/ NotReady(wsRef, socks)
       THEN /\ clast' = CLast("submit", wsRef, "ignored")
            /\ UNCHANGED <<messages, sent, input>>
       ELSE /\ Len(messages) < MaxLog
            /\ messages' = Append(messages, Entry(trim(input), "user"))
            /\ sent' = Append(sent, [type |-> "message", content |-> trim(input)])
            /\ input' = <<>>
            /\ clast' = CLast("submit", wsRef, "sent")
    /\ UNCHANGED <<chat, socks, wsRef, timers, status>>
    /\ cframe' = NoFrame
    /\ UNCHANGED gateVars

ChatNext ==
    \/ ChatMount
    \/ ChatUnmount
    \/ TimerFire
    \/ \E k \in Slots : onopen(k)
    \/ \E k \in Slots : SocketClose(k)
    \/ \E k \in Slots, f \in Frames : SocketMessage(k, f)
    \/ \E v \in Inputs : SetInput(v)
    \/ sendMessage

-----------------------------------------------------------------------------
(***************************************************************************)
(* The specifications                                                      *)
(***************************************************************************)

\* The session gate from application start, the Chat view not mounted.
GateSpecInit == GateInit /\ ChatInit

GateSpec == GateSpecInit /\ [][GateNext]_vars

\* The Chat view, from before its mount, under an authenticated session at
\* /chat (the gate state in which the route table renders <Chat />).
ChatSpecInit ==
    /\ app = "mounted"
    /\ user = "user"
    /\ loading = FALSE
    /\ setupNeeded = "false"
    /\ path = "/chat"
    /\ error = ""
    /\ reqs = <<>>
    /\ glast = Last("check", "mount",
                    Returned([NoBody EXCEPT !.authenticated = "true",
                                            !.setup_needed = "false"]))
    /\ gresp = Response(TRUE, 200, TRUE,
                        [NoBody EXCEPT !.authenticated = "true",
                                       !.setup_needed = "false"])
    /\ gstale = 0
    /\ ChatInit

ChatSpec == ChatSpecInit /\ [][ChatNext]_vars

\* connect() is called while the socket in wsRef is connecting or open: the
\* function has no guard, so the call runs its whole body.  The sockets and
\* timers it may add to are counted, to keep them within the slots.
connectAgain ==
    /\ chat = "mounted"
    /\ wsRef # 0
    /\ socks[wsRef] \in {"CONNECTING", "OPEN"}
    /\ FreeSlots(socks) # {}
    /\ Cardinality({k \in Slots : socks[k] \in Live}) + timers < MaxSockets
    /\ socks' = connect(socks).socks
    /\ wsRef' = connect(socks).wsRef
    /\ clast' = CLast("connect", wsRef', "")
    /\ UNCHANGED <<chat, timers, status, messages, input, sent>>
    /\ cframe' = NoFrame
    /\ UNCHANGED gateVars

\* The connection of the Chat view alone, with connect() callable at any
\* time, as the transport's open() is.
OpenNext ==
    \/ ChatMount
    \/ ChatUnmount
    \/ TimerFire
    \/ \E k \in Slots : onopen(k)
    \/ \E k \in Slots : SocketClose(k)
    \/ connectAgain

OpenSpec == ChatSpecInit /\ [][OpenNext]_vars

\* The Chat view under the scheduling the browser gives: a pending timer
\* fires, and a connection attempt that is not closed gets its open event.
ChatFairSpec ==
    /\ ChatSpec
    /\ WF_vars(TimerFire)
    /\ WF_vars(\E k \in Slots : onopen(k))

-----------------------------------------------------------------------------
(***************************************************************************)
(* Sanity of the model                                                     *)
(***************************************************************************)

TypeOK ==
    /\ app \in {"init", "mounted"}
    /\ user \in {"null", "user"}
    /\ loading \in BOOLEAN
    /\ setupNeeded \in JsVals
    /\ path \in Paths
    /\ Len(reqs) <= MaxInFlight
    /\ gstale \in 0..Len(reqs)
    /\ chat \in {"init", "mounted", "unmounted"}
    /\ socks \in [Slots -> Live \cup {"CLOSED", "FREE"}]
    /\ wsRef \in 0..MaxSockets
    /\ timers \in Nat
    /\ status \in {"Connecting...", "Connected", "Disconnected"}
    /\ Len(messages) <= MaxLog
    /\ input \in Inputs

\* Every reachable location is one no <Navigate> leaves, and the Login
\* component's state exists only while a form is on screen.
Settled ==
    /\ Routes(path, user, loading, setupNeeded).to = ""
    /\ (View \notin Forms => error = "")

-----------------------------------------------------------------------------
(***************************************************************************)
(* Session gate: claims C1 - C7 (specification GateSpec)                   *)
(***************************************************************************)

\* C1: once logout() has finished, whatever the outcome of its POST, the
\* phase is Unauthenticated and no protected view is rendered.
C1_LogoutEndsUnauthenticated ==
    glast.op = "logout" => (Phase = "Unauthenticated" /\ View # "protected")

\* C2: a session check that fails (transport error, 401 or other non-2xx
\* status, unparsable body) leaves phase = Unauthenticated, whatever the gate
\* state before it.
C2_CheckFailsClosed ==
    (glast.op = "check" /\ ~glast.out.ok) => Phase = "Unauthenticated"

\* C3: a login() or setup() whose POST rejects changes none of user,
\* setupNeeded, loading (hence not the phase), issues no session check (the
\* request leaves the requests in flight and nothing joins them), and throws
\* the error to handleSubmit, which shows its message on the form.
C3_FailedLoginLeavesGate ==
    [][ (glast'.op = "post" /\ ~glast'.out.ok) =>
            /\ user' = user
            /\ loading' = loading
            /\ setupNeeded' = setupNeeded
            /\ Phase' = Phase
            /\ \E i \in 1..Len(reqs) :
                  /\ reqs[i].kind = glast'.kind
                  /\ reqs' = Remove(reqs, i)
                  /\ (reqs[i].alive => error' = glast'.out.message)
      ]_vars

\* C3 witness: a login POST was rejected with 401 and the form shows the error.
C3_Witness ==
    /\ glast.op = "post"
    /\ glast.kind = "login"
    /\ ~glast.out.ok
    /\ error = "Unauthorized"
    /\ Phase = "Unauthenticated"

\* C4: a successful session check that reports setup_needed leaves phase =
\* SetupRequired whatever it reports for authenticated, and no protected view
\* is rendered while setupNeeded is true.
C4_SetupPrecedence ==
    /\ (glast.op = "check" /\ glast.out.ok /\ Truthy(glast.out.data.setup_needed))
          => Phase = "SetupRequired"
    /\ Truthy(setupNeeded) => View # "protected"

\* C4 witness: a check reported setup_needed and authenticated together.
C4_Witness ==
    /\ glast.op = "check"
    /\ glast.out.ok
    /\ Truthy(glast.out.data.setup_needed)
    /\ Truthy(glast.out.data.authenticated)
    /\ user = "user"
    /\ Phase = "SetupRequired"
    /\ View = "setupForm"

\* C5: while phase = SetupRequired the view shown is the setup form, never
\* the login form, on every route.
C5_SetupHidesLogin ==
    Phase = "SetupRequired" => (View = "setupForm" /\ View # "loginForm")

\* C6: once resolved, the view is decided by the phase alone: the setup form
\* iff SetupRequired, the login form iff Unauthenticated, protected content
\* iff Authenticated.
C6_ViewIsFunctionOfPhase ==
    Phase # "Unresolved" =>
        /\ (View = "setupForm") <=> (Phase = "SetupRequired")
        /\ (View = "loginForm") <=> (Phase = "Unauthenticated")
        /\ (View = "protected") <=> (Phase = "Authenticated")

\* C7: while phase = Unresolved neither form nor a protected view is rendered
\* on any route: only the spinner or nothing.
C7_UnresolvedShowsPlaceholder ==
    Phase = "Unresolved" => View \in {"spinner", "blank"}

\* C7 witness: the first check is in flight and the operator went to /login.
C7_Witness ==
    /\ Phase = "Unresolved"
    /\ app = "mounted"
    /\ Len(reqs) = 1
    /\ path = "/login"
    /\ glast.op = "navigate"

-----------------------------------------------------------------------------
(***************************************************************************)
(* Realtime transport: claims C8 - C10 (specification ChatSpec)            *)
(***************************************************************************)

\* The WebSocket objects a step creates, and those whose close event it runs.
Created == { k \in Slots : socks[k] = "FREE" /\ socks'[k] = "CONNECTING" }

Closed(from) == { k \in Slots : socks[k] \in from /\ socks'[k] \in {"CLOSED", "FREE"} }

\* C8: after the Chat view is unmounted no new connection is ever opened.
C8_NoConnectAfterUnmount ==
    [][ chat = "unmounted" => Created = {} ]_vars

\* C9: an unplanned close schedules exactly one reconnection timer and opens
\* no connection itself; a connection is opened only by the mount or by a
\* pending timer firing, one connection per timer; a timer is scheduled only
\* by a close event.
C9_OneReconnectPerClose ==
    [][ /\ Closed({"CONNECTING", "OPEN"}) # {} =>
              (timers' = timers + 1 /\ Created = {})
        /\ Created # {} =>
              /\ Cardinality(Created) = 1
              /\ \/ (chat = "init" /\ chat' = "mounted" /\ timers' = timers)
                 \/ (timers > 0 /\ timers' = timers - 1)
        /\ timers' < timers => Created # {}
        /\ timers' > timers => Cardinality(Closed(Live)) = 1
      ]_vars

\* C9 witness: after an unplanned close the timer fired and a socket is connecting.
C9_Witness ==
    /\ chat = "mounted"
    /\ clast.op = "timer"
    /\ status = "Disconnected"
    /\ timers = 0
    /\ socks[wsRef] = "CONNECTING"

\* C10: a frame is handed to the socket's send only while wsRef holds a
\* socket whose readyState is OPEN.
C10_SendOnlyWhenOpen ==
    [][ sent' # sent => (wsRef # 0 /\ socks[wsRef] = "OPEN") ]_vars

\* C10 witness: non-empty text was submitted while the socket was still connecting.
C10_Witness ==
    /\ clast.op = "submit"
    /\ clast.note = "ignored"
    /\ trim(input) # <<>>
    /\ wsRef # 0
    /\ socks[wsRef] = "CONNECTING"
    /\ sent = <<>>

-----------------------------------------------------------------------------
(***************************************************************************)
(* Chat controller: claims C11 - C13 (specification ChatSpec)              *)
(***************************************************************************)

\* The text is empty once white space is removed from its ends.
AllBlank(t) == \A i \in 1..Len(t) : t[i] = " "

\* The current channel is Open.
ChannelOpen == wsRef # 0 /\ socks[wsRef] = "OPEN"
ChannelOpening == wsRef # 0 /\ socks[wsRef] \in {"CONNECTING", "OPEN"}

\* The step is a form submission of non-blank text.
SubmitsText == clast'.op = "submit" /\ ~AllBlank(input)

\* C11: a submit of non-empty text while the channel is not Open gives the UI
\* an observable error result (a NotReadyError, or at least a change of what
\* the Chat view shows); it is never silently swallowed.
C11_NotReadyIsSurfaced ==
    [][ (SubmitsText /\ ~ChannelOpen) =>
            \/ clast'.note = "NotReadyError"
            \/ <<messages, status, input>>' # <<messages, status, input>>
      ]_vars

C13_LogAppendOnly ==
    [][ messages' # messages =>
            /\ Len(messages') = Len(messages) + 1
            /\ SubSeq(messages', 1, Len(messages)) = messages
            /\ LET e == messages'[Len(messages')] IN
               \/ (clast'.op = "submit" /\ e = Entry(trim(input), "user"))
               \/ (clast'.op = "onmessage" /\ e.text = cframe'.content
                                           /\ e.sender \in {cframe'.sender, "bot"})
      ]_vars

\* C13 witness: inbound A, submission C, inbound B observed in this order.
C13_Witness ==
    /\ messages = <<Entry(<<"a">>, "bot"), Entry(<<"a">>, "user"),
                    Entry(<<"a">>, "mika")>>
    /\ clast.op = "onmessage"

-----------------------------------------------------------------------------
(***************************************************************************)
(* Session gate: claims C14, C15, C17 (specification GateSpec)             *)
(***************************************************************************)

\* The response is a success carrying a JSON body.
Succeeds(resp) == resp.net /\ resp.json /\ resp.status \in 200..299

\* The phase a session check's response stands for.
DerivedPhase(resp) ==
    IF ~Succeeds(resp) THEN "Unauthenticated"
    ELSE IF Truthy(resp.body.setup_needed) THEN "SetupRequired"
    ELSE IF Truthy(resp.body.authenticated) THEN "Authenticated"
    ELSE "Unauthenticated"

\* C14: a login() or setup() whose POST succeeds issues exactly one session
\* check, and when that check completes the phase is the one its response
\* stands for: SetupRequired if it reports setup_needed, Unauthenticated if it
\* reports not authenticated or fails, Authenticated otherwise.
C14_RecheckDerivesPhase ==
    [][ /\ (glast'.op = "post" /\ glast'.out.ok) =>
              \E i \in 1..Len(reqs) :
                  reqs' = Append(Remove(reqs, i),
                                 Req("check", reqs[i].kind, reqs[i].alive))
        /\ (glast'.op = "check" /\ glast'.kind \in {"login", "setup"}) =>
              Phase' = DerivedPhase(gresp')
      ]_vars

\* C15: a non-success response that carries an error string is thrown as an
\* error with exactly that message and that HTTP status, 401 included.
C15_ErrorIsSurfaced ==
    (/\ glast.op \in {"post", "check", "logout"}
     /\ gresp.net /\ gresp.json
     /\ gresp.status \notin 200..299
     /\ gresp.body.error # "")
        => (glast.out.message = gresp.body.error /\ glast.out.status = gresp.status)

\* C17: a form submission never starts a login() or setup() while a session
\* check or another login/setup is still in flight.
C17_GateUsedSerially ==
    [][ (glast'.op = "submit" /\ Len(reqs') > Len(reqs)) =>
            \A i \in 1..Len(reqs) : reqs[i].kind \notin {"check", "login", "setup"}
      ]_vars

-----------------------------------------------------------------------------
(***************************************************************************)
(* Realtime transport: claim C16 (specification ChatFairSpec)              *)
(***************************************************************************)

\* C16: every close event is eventually followed by a new connection attempt
\* (a timer firing), however many attempts failed before; and if the view
\* stays mounted and from some point on no connection is closed any more,
\* the status indicator ends up Connected for good.
C16_RetryUntilConnected ==
    /\ (clast.op = "onclose") ~> (clast.op = "timer")
    /\ (<>[](chat = "mounted") /\ <>[][Closed(Live) = {}]_vars)
          => <>[](status = "Connected")

\* C16 witness: a connection attempt made by a timer failed in its turn, and
\* the next timer is pending.
C16_Witness ==
    /\ chat = "mounted"
    /\ clast.op = "onclose"
    /\ clast.note = "unplanned"
    /\ status = "Disconnected"
    /\ timers = 1
    /\ wsRef = 2

-----------------------------------------------------------------------------
(***************************************************************************)
(* Inbound frames and blank submissions: claims C19, C20 (ChatSpec)        *)
(***************************************************************************)

\* The frame decodes to an object that has a content key.
HasContentKey(f) == f.json /\ f.object /\ f.hasContent

\* The frame decodes to an object whose content is a non-empty text.
HasContentText(f) == HasContentKey(f) /\ f.content # <<>>

Connection == <<status, socks, wsRef, timers>>

\* C19 as stated: while the view is mounted, a frame that decodes to an
\* object with a content value appends one entry with text = content and
\* sender = the payload's sender, or "bot" when the key is absent; any other
\* frame leaves the log unchanged; no frame touches status or connection.
C19_FrameEffectByPresence ==
    [][ clast'.op = "onmessage" =>
          /\ Connection' = Connection
          /\ chat = "mounted" =>
               messages' = IF HasContentKey(cframe')
                           THEN Append(messages,
                                       Entry(cframe'.content,
                                             IF cframe'.hasSender THEN cframe'.sender
                                             ELSE "bot"))
                           ELSE messages ]_vars

\* C19 amended: while the view is mounted, a frame appends one entry exactly
\* when it decodes to an object with a non-empty content, with text = content
\* and sender = the payload's sender when that is non-empty, "bot" otherwise;
\* any other frame (invalid JSON, not an object, content absent or empty)
\* leaves the log unchanged; no frame touches status or connection.
C19_FrameEffectByTruthiness ==
    [][ clast'.op = "onmessage" =>
          /\ Connection' = Connection
          /\ chat = "mounted" =>
               messages' = IF HasContentText(cframe')
                           THEN Append(messages,
                                       Entry(cframe'.content,
                                             IF cframe'.hasSender /\ cframe'.sender # ""
                                             THEN cframe'.sender ELSE "bot"))
                           ELSE messages ]_vars

\* C19 witness: a frame {"content": ""} has just been dropped by the mounted
\* view; the log holds an earlier entry and the socket is still open.
C19_Witness ==
    /\ chat = "mounted"
    /\ clast.op = "onmessage"
    /\ clast.note = "dropped"
    /\ HasContentKey(cframe)
    /\ socks[clast.sock] = "OPEN"
    /\ status = "Connected"
    /\ timers = 0
    /\ Len(messages) = 1

\* C20: a submission of a text that is empty after trimming appends nothing,
\* sends nothing and leaves input, status and connection as they were,
\* whatever the state of the socket.
C20_BlankSubmitIsNoOp ==
    [][ (clast'.op = "submit" /\ AllBlank(input)) =>
            UNCHANGED <<messages, sent, input, status, socks, wsRef, timers>> ]_vars

\* C20 witness: a blank text has just been submitted while the socket is open.
C20_Witness ==
    /\ chat = "mounted"
    /\ clast.op = "submit"
    /\ clast.note = "ignored"
    /\ input = <<" ">>
    /\ socks[wsRef] = "OPEN"

-----------------------------------------------------------------------------
(***************************************************************************)
(* Realtime transport: claim C18 (specification OpenSpec)                  *)
(***************************************************************************)

-----------------------------------------------------------------------------
(***************************************************************************)
(* Session gate: claims C21, C22 (specification GateSpec)                  *)
(***************************************************************************)

Phases == {"Unresolved", "SetupRequired", "Unauthenticated", "Authenticated"}

\* C21: the gate starts Unresolved and stays so until a session check
\* completes; a check completion, successful or failed, leaves a resolved
\* phase; and no step takes a resolved phase back to Unresolved.
C21_UnresolvedOnlyAtFirst ==
    /\ Phase = "Unresolved"
    /\ [][ /\ glast'.op = "check" => Phase' # "Unresolved"
           /\ Phase # "Unresolved" => Phase' # "Unresolved"
           /\ (Phase = "Unresolved" /\ glast'.op # "check") => Phase' = "Unresolved"
         ]_vars

\* C21 witness: the re-check of a later login has failed, and the gate is in
\* a resolved phase.
C21_Witness ==
    /\ glast.op = "check"
    /\ glast.kind = "login"
    /\ ~glast.out.ok
    /\ Phase = "Unauthenticated"

-----------------------------------------------------------------------------
(***************************************************************************)
(* Session gate: claim C24 (specification GateSpec)                        *)
(***************************************************************************)

\* The session check that has just completed reported an authenticated session.
ReportedAuthenticated(out) == out.ok /\ Truthy(out.data.authenticated)

\* C24: a protected view is on screen only when loading is false,
\* setupNeeded is not set and user is set; and user is set exactly by a
\* completed session check that reported authenticated, is cleared by every
\* other completed check and by every completed logout, and is touched by
\* nothing else.
C24_ProtectedOnlyWhenAuthenticated ==
    [][ /\ View' = "protected" =>
              (~loading' /\ ~Truthy(setupNeeded') /\ user' # "null")
        /\ glast'.op = "check" =>
              (user' # "null" <=> ReportedAuthenticated(glast'.out))
        /\ glast'.op = "logout" => user' = "null"
        /\ glast'.op \notin {"check", "logout"} => user' = user
      ]_vars

-----------------------------------------------------------------------------
(***************************************************************************)
(* Chat view: claim C25 (specification ChatSpec)                           *)
(***************************************************************************)

\* The sockets that are connecting or open.
Channels == { k \in Slots : socks[k] \in {"CONNECTING", "OPEN"} }

\* While the view is mounted, the sockets that are connecting or open and the
\* pending reconnection timers are exactly one in all, and a socket that is
\* connecting or open is the one wsRef holds.
SingleChain ==
    chat = "mounted" =>
        /\ Cardinality(Channels) + timers = 1
        /\ wsRef # 0
        /\ Channels \subseteq {wsRef}

\* C25: SingleChain holds in every state, and every step that creates a
\* socket leaves wsRef holding the socket just created.
C25_SingleChain ==
    /\ []SingleChain
    /\ [][ Created # {} => Created = {wsRef'} ]_vars

\* C25 witness: the second attempt of the chain is open, after a close and a
\* timer; no timer is pending.
C25_Witness ==
    /\ chat = "mounted"
    /\ clast.op = "onopen"
    /\ wsRef = 2
    /\ socks[2] = "OPEN"
    /\ timers = 0

-----------------------------------------------------------------------------
(***************************************************************************)
(* Chat view: claim C27 (specification ChatSpec)                           *)
(***************************************************************************)

IsUser(e) == e.sender = "user"

\* The frame sendMessage hands to the socket for a log entry.
FrameOf(e) == [type |-> "message", content |-> e.text]

\* C27 as stated: the frames handed to the socket are, in order, the frames
\* of the entries of the log whose sender is "user".
C27_SentMatchesUserEntries ==
    LET us == SelectSeq(messages, IsUser)
    IN sent = [i \in 1..Len(us) |-> FrameOf(us[i])]

\* C27 amended: a step hands a frame to the socket exactly when it is a
\* submission that appends its entry: one frame, with the trimmed text of
\* that entry, whose sender is "user"; no other step (an open, a close, a
\* timer, an inbound frame) sends or re-sends anything.
C27_SentMatchesSubmissions ==
    [][ IF clast'.op = "submit" /\ messages' # messages
        THEN /\ messages' = Append(messages, Entry(trim(input), "user"))
             /\ sent' = Append(sent, FrameOf(Entry(trim(input), "user")))
        ELSE sent' = sent ]_vars

\* C27 witness: a text was submitted while the socket was not open and
\* dropped, the socket has opened since, and only the earlier submission has
\* been sent.
C27_Witness ==
    /\ chat = "mounted"
    /\ clast.op = "onopen"
    /\ wsRef = 2
    /\ input = <<"a">>
    /\ messages = <<Entry(<<"a">>, "user")>>
    /\ sent = <<FrameOf(Entry(<<"a">>, "user"))>>

-----------------------------------------------------------------------------
(***************************************************************************)
(* Chat view: claim C28 (specification ChatSpec)                           *)
(***************************************************************************)

\* While the view is mounted, the status is "Connected" exactly when the
\* socket in wsRef is open.
StatusTracksChannel ==
    chat = "mounted" => (status = "Connected" <=> ChannelOpen)

\* C28: StatusTracksChannel holds in every state; a close event of the
\* mounted view leaves the status "Disconnected"; and from then on it stays
\* "Disconnected" through every step but an open event, the timer's new
\* attempt included.
C28_StatusTracksChannel ==
    /\ []StatusTracksChannel
    /\ [][ chat' = "mounted" =>
             /\ clast'.op = "onclose" => status' = "Disconnected"
             /\ (status = "Disconnected" /\ clast'.op # "onopen")
                    => status' = "Disconnected"
         ]_vars

\* C28 witness: after an unplanned close the timer has made a new attempt,
\* which is still connecting, and the status is still "Disconnected".
C28_Witness ==
    /\ chat = "mounted"
    /\ clast.op = "timer"
    /\ socks[wsRef] = "CONNECTING"
    /\ status = "Disconnected"

-----------------------------------------------------------------------------
(***************************************************************************)
(* Session gate: claim C26 (specification GateSpec)                        *)
(***************************************************************************)

\* The step is the completion of a session check or of a logout that was
\* issued before an outcome the gate has applied since.
StaleCompletion ==
    /\ glast'.op \in {"check", "logout"}
    /\ gstale > 0
    /\ gstale' = gstale - 1

\* C26: the response of an older operation that arrives after the outcome of
\* a more recently issued one has been applied does not change the gate, so
\* that the gate ends with the outcome of the operation issued last.
C26_LatestIntentWins ==
    [][ StaleCompletion => UNCHANGED <<user, setupNeeded>> ]_vars

=============================================================================
